---- MODULE Spec2Model ----
(***************************************************************************)
(* A model of crypto/ec/p256-x86_64.c: the P-256 scalar multiplication     *)
(* (ecp_nistz256_points_mul, ecp_nistz256_windowed_mul), Booth recoding,   *)
(* the modular inverter and the affine conversion.                         *)
(*                                                                         *)
(* Numbers wider than a machine word are kept as sequences of 16-bit       *)
(* digits, least significant first.  A BN_ULONG limb (64 bits) is a        *)
(* sequence of four such digits.                                           *)
(***************************************************************************)
EXTENDS Integers, Sequences, FiniteSets, TLC

(* ----------------------------------------------------------------------- *)
(* Program constants                                                       *)
(* ----------------------------------------------------------------------- *)
P256_LIMBS == 4
BN_BYTES == 8
kWindowSize5 == 5
kWindowSize7 == 7
StrLen == 33
NumRows == 37
TableSize == 16
RowSize == 64

(* Bounds of the model *)
MaxNum == 2
MaxTop == 5
Order == 101

HalfMod == 2^16
UMod == 2^16

(* ----------------------------------------------------------------------- *)
(* unsigned arithmetic (the low UMod bits of C's unsigned; every value     *)
(* read back from these operators is below 2^9)                            *)
(* ----------------------------------------------------------------------- *)
(* v, computed now (an accumulator is a value before the next iteration) *)
Evaluated(v) == v = v

RECURSIVE BitAnd(_, _)
BitAnd(a, b) ==
  IF a = 0 \/ b = 0 THEN 0
  ELSE (a % 2) * (b % 2) + 2 * BitAnd(a \div 2, b \div 2)

RECURSIVE BitOr(_, _)
BitOr(a, b) ==
  IF a = 0 THEN b
  ELSE IF b = 0 THEN a
  ELSE (IF a % 2 = 1 \/ b % 2 = 1 THEN 1 ELSE 0) + 2 * BitOr(a \div 2, b \div 2)

BitNot(a) == UMod - 1 - a
Shr(a, k) == a \div (2^k)
Shl(a, k) == (a * (2^k)) % UMod
USub(a, b) == (a - b) % UMod
UAdd(a, b) == (a + b) % UMod

(* ----------------------------------------------------------------------- *)
(* Booth recoding                                                          *)
(* ----------------------------------------------------------------------- *)
(* the recoding with d = d >> 1 in place of d = (d >> 1) + (d & 1) *)
booth_recode_w5_noround(in) ==
  LET s  == BitNot(USub(Shr(in, 5), 1))
      d0 == USub(USub(Shl(1, 6), in), 1)
      d1 == BitOr(BitAnd(d0, s), BitAnd(in, BitNot(s)))
      d2 == Shr(d1, 1)
  IN  UAdd(Shl(d2, 1), BitAnd(s, 1))

booth_recode_w5(in) ==
  LET s  == BitNot(USub(Shr(in, 5), 1))
      d0 == USub(USub(Shl(1, 6), in), 1)
      d1 == BitOr(BitAnd(d0, s), BitAnd(in, BitNot(s)))
      d2 == UAdd(Shr(d1, 1), BitAnd(d1, 1))
  IN  UAdd(Shl(d2, 1), BitAnd(s, 1))

(* the recoding without the complement of a window whose top bit is set *)
booth_recode_w7_nofold(in) ==
  LET s  == BitNot(USub(Shr(in, 7), 1))
      d1 == in
      d2 == UAdd(Shr(d1, 1), BitAnd(d1, 1))
  IN  UAdd(Shl(d2, 1), BitAnd(s, 1))

booth_recode_w7(in) ==
  LET s  == BitNot(USub(Shr(in, 7), 1))
      d0 == USub(USub(Shl(1, 8), in), 1)
      d1 == BitOr(BitAnd(d0, s), BitAnd(in, BitNot(s)))
      d2 == UAdd(Shr(d1, 1), BitAnd(d1, 1))
  IN  UAdd(Shl(d2, 1), BitAnd(s, 1))

kMask5 == Shl(1, 5 + 1) - 1
kMask7 == Shl(1, 7 + 1) - 1

(* ----------------------------------------------------------------------- *)
(* BIGNUM: [neg, d], d the sequence of limbs in use (top = Len(d)); a limb *)
(* is four 16-bit digits, least significant first.                         *)
(* ----------------------------------------------------------------------- *)
LimbZero == <<0, 0, 0, 0>>
LimbOne  == <<1, 0, 0, 0>>
LimbOnes == <<65535, 65535, 65535, 65535>>
LimbHigh == <<0, 0, 0, 32768>>
LimbMix  == <<65504, 31, 1024, 33791>>

BnTop(bn) == Len(bn.d)

(* byte k (0..7) of a limb: (d >> 8k) & 0xff *)
LimbByte(limb, k) ==
  LET h == limb[(k \div 2) + 1]
  IN  IF k % 2 = 0 THEN BitAnd(h, 255) ELSE BitAnd(Shr(h, 8), 255)

(* bit i of the magnitude of bn, read from its limbs *)
BnBit(bn, i) ==
  IF i \div 64 >= Len(bn.d) THEN 0
  ELSE LET limb == bn.d[(i \div 64) + 1]
           h    == limb[((i % 64) \div 16) + 1]
       IN  (h \div (2^(i % 16))) % 2

RECURSIVE WordBits(_)
WordBits(h) == IF h = 0 THEN 0 ELSE 1 + WordBits(h \div 2)

LimbBits(limb) ==
  IF limb[4] # 0 THEN 48 + WordBits(limb[4])
  ELSE IF limb[3] # 0 THEN 32 + WordBits(limb[3])
  ELSE IF limb[2] # 0 THEN 16 + WordBits(limb[2])
  ELSE WordBits(limb[1])

BN_num_bits(bn) ==
  IF Len(bn.d) = 0 THEN 0
  ELSE (Len(bn.d) - 1) * 64 + LimbBits(bn.d[Len(bn.d)])

BN_is_negative(bn) == bn.neg

(* the test without BN_num_bits(scalar) > 256 *)
NeedsReduction_negative(bn) == BN_is_negative(bn)

NeedsReduction(bn) == BN_num_bits(bn) > 256 \/ BN_is_negative(bn)

(* The serialisation loops: bytes of every limb in use, then zero fill up  *)
(* to index 32.  The result is indexed from 0; writes made past index 32   *)
(* are kept so that they can be seen.                                      *)
SerializeLast(bn) ==
  IF BnTop(bn) * BN_BYTES > StrLen THEN BnTop(bn) * BN_BYTES - 1 ELSE StrLen - 1

Serialize(bn) ==
  [j \in 0..SerializeLast(bn) |->
     IF j < BnTop(bn) * BN_BYTES
       THEN LimbByte(bn.d[(j \div BN_BYTES) + 1], j % BN_BYTES)
       ELSE 0]

(* ----------------------------------------------------------------------- *)
(* Window extraction                                                       *)
(* ----------------------------------------------------------------------- *)
(* general path, seed window (index = 255): one byte is read *)
SeedWindowW5(p_str) ==
  LET index == 255
      wv    == p_str[(index - 1) \div 8]
  IN  BitAnd(Shr(wv, (index - 1) % 8), kMask5)

(* general path, window at index (255, 250, .., 5): two bytes are read *)
WindowW5(p_str, index) ==
  LET off == (index - 1) \div 8
      wv  == BitOr(p_str[off], Shl(p_str[off + 1], 8))
  IN  BitAnd(Shr(wv, (index - 1) % 8), kMask5)

FinalWindowW5(p_str) == BitAnd(Shl(p_str[0], 1), kMask5)

(* generator path *)
FirstWindowW7(p_str) == BitAnd(Shl(p_str[0], 1), kMask7)

WindowW7(p_str, index) ==
  LET off == (index - 1) \div 8
      wv  == BitOr(p_str[off], Shl(p_str[off + 1], 8))
  IN  BitAnd(Shr(wv, (index - 1) % 8), kMask7)

(* a recoded window: magnitude and sign *)
Mag(rec) == Shr(rec, 1)
Sign(rec) == BitAnd(rec, 1)

(* The field prime, from the comment of ecp_nistz256_mod_inverse:          *)
(* ffffffff 00000001 00000000 00000000 00000000 ffffffff ffffffff ffffffff *)
P256Prime ==
  <<65535, 65535, 65535, 65535, 65535, 65535, 0, 0, 0, 0, 0, 0, 1, 0,
    65535, 65535, 0>>

(* ----------------------------------------------------------------------- *)
(* Wide naturals: BigLen digits of 16 bits, least significant first        *)
(* ----------------------------------------------------------------------- *)
BigLen == Len(P256Prime)

BigOf(n) == [i \in 1..BigLen |-> IF i = 1 THEN n ELSE 0]

RECURSIVE BigAddFrom(_, _, _, _)
BigAddFrom(a, b, i, carry) ==
  IF i > BigLen THEN << >>
  ELSE LET t == a[i] + b[i] + carry
       IN  <<t % HalfMod>> \o BigAddFrom(a, b, i + 1, t \div HalfMod)

BigAdd(a, b) == BigAddFrom(a, b, 1, 0)

(* p is odd and its lowest digit is ffff: p - 1 and p - 2 change it alone *)
PMinus1 == [P256Prime EXCEPT ![1] = 65534]
PMinus2 == [P256Prime EXCEPT ![1] = 65533]

(* ----------------------------------------------------------------------- *)
(* Field elements.  A nonzero element is a monomial X^ex * Y^ey * Z^ez *   *)
(* R^r over the three coordinates of one point and R = 2^256 mod p; ez is  *)
(* a wide natural.  Exponents are kept as the operations produce them;     *)
(* two monomials are the same element when their exponents agree modulo    *)
(* p - 1 (the order of the multiplicative group).                          *)
(* ----------------------------------------------------------------------- *)
FZero == [zero |-> TRUE, undef |-> FALSE, ex |-> 0, ey |-> 0, ez |-> BigOf(0), r |-> 0]
FUndef == [zero |-> FALSE, undef |-> TRUE, ex |-> 0, ey |-> 0, ez |-> BigOf(0), r |-> 0]
FMono(x, y, z, r) ==
  [zero |-> FALSE, undef |-> FALSE, ex |-> x, ey |-> y, ez |-> z, r |-> r]

(* the coordinates of a point, in the Montgomery domain *)
SymX == FMono(1, 0, BigOf(0), 1)
SymY == FMono(0, 1, BigOf(0), 1)
SymZ == FMono(0, 0, BigOf(1), 1)
(* ONE: one converted into the Montgomery domain *)
ONE == FMono(0, 0, BigOf(0), 1)

(* Montgomery mul: res = a*b*2^-256 mod P *)
ecp_nistz256_mul_mont(a, b) ==
  IF a.undef \/ b.undef THEN FUndef
  ELSE IF a.zero \/ b.zero THEN FZero
  ELSE FMono(a.ex + b.ex, a.ey + b.ey, BigAdd(a.ez, b.ez), a.r + b.r - 1)

(* Montgomery sqr: res = a*a*2^-256 mod P *)
ecp_nistz256_sqr_mont(a) == ecp_nistz256_mul_mont(a, a)

(* Convert a number from the Montgomery domain, by multiplying with 1 *)
ecp_nistz256_from_mont(a) ==
  IF a.undef THEN FUndef
  ELSE IF a.zero THEN FZero
  ELSE FMono(a.ex, a.ey, a.ez, a.r - 1)

(* e = k * (p - 1) for a small k *)
IsMultipleOfPMinus1(e) ==
  \/ e = BigOf(0)
  \/ e = PMinus1
  \/ e = BigAdd(PMinus1, PMinus1)
  \/ e = BigAdd(PMinus1, BigAdd(PMinus1, PMinus1))

(* a and b are the same field element *)
SameElement(a, b) ==
  /\ ~a.undef /\ ~b.undef
  /\ a.zero = b.zero
  /\ ~a.zero =>
       /\ a.ex = b.ex /\ a.ey = b.ey /\ a.r = b.r
       /\ \E k \in {BigOf(0), PMinus1, BigAdd(PMinus1, PMinus1),
                    BigAdd(PMinus1, BigAdd(PMinus1, PMinus1))} :
            \/ a.ez = BigAdd(b.ez, k)
            \/ b.ez = BigAdd(a.ez, k)

(* ----------------------------------------------------------------------- *)
(* ecp_nistz256_mod_inverse: the sequence of operations of the function,   *)
(* loops unrolled                                                          *)
(* ----------------------------------------------------------------------- *)
ISqr(dst, a)    == [op |-> "sqr", dst |-> dst, a |-> a, b |-> a]
IMul(dst, a, b) == [op |-> "mul", dst |-> dst, a |-> a, b |-> b]
Rep(n, instr)   == [i \in 1..n |-> instr]

(* the program with one squaring in place of the last two *)
InvProgram_short ==
     <<ISqr("res", "in"), IMul("p2", "res", "in")>>
  \o <<ISqr("res", "p2"), ISqr("res", "res"), IMul("p4", "res", "p2")>>
  \o <<ISqr("res", "p4")>> \o Rep(3, ISqr("res", "res")) \o <<IMul("p8", "res", "p4")>>
  \o <<ISqr("res", "p8")>> \o Rep(7, ISqr("res", "res")) \o <<IMul("p16", "res", "p8")>>
  \o <<ISqr("res", "p16")>> \o Rep(15, ISqr("res", "res")) \o <<IMul("p32", "res", "p16")>>
  \o <<ISqr("res", "p32")>> \o Rep(31, ISqr("res", "res")) \o <<IMul("res", "res", "in")>>
  \o Rep(32 * 4, ISqr("res", "res")) \o <<IMul("res", "res", "p32")>>
  \o Rep(32, ISqr("res", "res")) \o <<IMul("res", "res", "p32")>>
  \o Rep(16, ISqr("res", "res")) \o <<IMul("res", "res", "p16")>>
  \o Rep(8, ISqr("res", "res")) \o <<IMul("res", "res", "p8")>>
  \o Rep(4, ISqr("res", "res")) \o <<IMul("res", "res", "p4")>>
  \o Rep(2, ISqr("res", "res")) \o <<IMul("res", "res", "p2")>>
  \o Rep(1, ISqr("res", "res")) \o <<IMul("res", "res", "in")>>

InvProgram ==
     <<ISqr("res", "in"), IMul("p2", "res", "in")>>
  \o <<ISqr("res", "p2"), ISqr("res", "res"), IMul("p4", "res", "p2")>>
  \o <<ISqr("res", "p4")>> \o Rep(3, ISqr("res", "res")) \o <<IMul("p8", "res", "p4")>>
  \o <<ISqr("res", "p8")>> \o Rep(7, ISqr("res", "res")) \o <<IMul("p16", "res", "p8")>>
  \o <<ISqr("res", "p16")>> \o Rep(15, ISqr("res", "res")) \o <<IMul("p32", "res", "p16")>>
  \o <<ISqr("res", "p32")>> \o Rep(31, ISqr("res", "res")) \o <<IMul("res", "res", "in")>>
  \o Rep(32 * 4, ISqr("res", "res")) \o <<IMul("res", "res", "p32")>>
  \o Rep(32, ISqr("res", "res")) \o <<IMul("res", "res", "p32")>>
  \o Rep(16, ISqr("res", "res")) \o <<IMul("res", "res", "p16")>>
  \o Rep(8, ISqr("res", "res")) \o <<IMul("res", "res", "p8")>>
  \o Rep(4, ISqr("res", "res")) \o <<IMul("res", "res", "p4")>>
  \o Rep(2, ISqr("res", "res")) \o <<IMul("res", "res", "p2")>>
  \o Rep(2, ISqr("res", "res")) \o <<IMul("res", "res", "in")>>

InvRegs == {"in", "res", "p2", "p4", "p8", "p16", "p32"}

(* the locals on entry: in holds the argument, the others are not yet set *)
InvEntry(in) == [g \in InvRegs |-> IF g = "in" THEN in ELSE FUndef]

InvStep(regs, instr) ==
  [regs EXCEPT ![instr.dst] =
     IF instr.op = "sqr" THEN ecp_nistz256_sqr_mont(regs[instr.a])
     ELSE ecp_nistz256_mul_mont(regs[instr.a], regs[instr.b])]

(* operations lo..hi of the program, in order *)
RECURSIVE InvRun(_, _, _)
InvRun(regs, lo, hi) ==
  IF lo > hi THEN regs
  ELSE IF lo = hi THEN InvStep(regs, InvProgram[lo])
  ELSE LET mid == (lo + hi) \div 2
           r2  == InvRun(regs, lo, mid)
       IN  IF Evaluated(r2) THEN InvRun(r2, mid + 1, hi) ELSE r2

(* r = in^-1 mod p: memcpy(r, res, sizeof(res)) after the last operation *)
ecp_nistz256_mod_inverse(in) == InvRun(InvEntry(in), 1, Len(InvProgram))["res"]

(* ----------------------------------------------------------------------- *)
(* Curve points.  The group generated by G is modelled by the integers     *)
(* modulo Order: the point m*G is its multiple m.  A P256_POINT is [m, z]: *)
(* m = 0 stands for X = Y = 0, z tells whether Z is nonzero.  (0, 0, 0) is *)
(* [0, 0]; (0, 0, ONE) is [0, 1].  Indet is a value that was never         *)
(* written (stack or heap contents).                                       *)
(* ----------------------------------------------------------------------- *)
Indet == [m |-> -1, z |-> -1]
Pt(m, z) == [m |-> m, z |-> z]
PtZero == Pt(0, 0)
IsIndet(a) == a.m = -1

(* group operations of the field-arithmetic layer *)
ecp_nistz256_point_double(a) ==
  IF IsIndet(a) THEN Indet
  ELSE IF a.m = 0 THEN (IF a.z = 0 THEN PtZero ELSE Indet)
  ELSE LET m == (2 * a.m) % Order IN Pt(m, IF m = 0 THEN 0 ELSE 1)

ecp_nistz256_point_add(a, b) ==
  IF IsIndet(a) \/ IsIndet(b) THEN Indet
  ELSE IF b.m = 0 THEN a
  ELSE IF a.m = 0 THEN b
  ELSE LET m == (a.m + b.m) % Order IN Pt(m, IF m = 0 THEN 0 ELSE 1)

(* b is affine: [m], m = 0 for (0, 0) *)
ecp_nistz256_point_add_affine(a, b) ==
  IF IsIndet(a) \/ b.m = -1 THEN Indet
  ELSE IF b.m = 0 THEN a
  ELSE IF a.m = 0 THEN Pt(b.m, 1)
  ELSE LET m == (a.m + b.m) % Order IN Pt(m, IF m = 0 THEN 0 ELSE 1)

(* Modular neg: res = -a mod P, applied to the Y coordinate of a point *)
NegY(m) == IF m <= 0 THEN m ELSE (Order - m) % Order

(* copy_conditional(dst, src, move): dst = move ? src : dst, by masks *)
copy_conditional(dst, src, move) ==
  LET mask1 == USub(0, move)
      mask2 == BitNot(mask1)
  IN  IF mask1 = UMod - 1 /\ mask2 = 0 THEN src
      ELSE IF mask1 = 0 /\ mask2 = UMod - 1 THEN dst
      ELSE -1

(* ecp_nistz256_neg(tmp, h.Y); copy_conditional(h.Y, tmp, sign) *)
ConditionalNegate(h, sign) ==
  IF IsIndet(h) THEN Indet
  ELSE [h EXCEPT !.m = copy_conditional(h.m, NegY(h.m), sign)]

(* constant-time table access: the entry whose number matches index; no    *)
(* entry matches index 0 and the result is all zero                        *)
ecp_nistz256_select_w5(row, index) ==
  IF index \in 1..TableSize THEN row[index] ELSE PtZero

RECURSIVE Pow2Mod(_)
Pow2Mod(n) ==
  IF n = 0 THEN 1 % Order
  ELSE IF n % 2 = 1 THEN (2 * Pow2Mod(n - 1)) % Order
  ELSE LET h == Pow2Mod(n \div 2) IN (h * h) % Order

(* ecp_nistz256_precomputed: row i (0..36), entry j (1..64) is the affine  *)
(* point j * 2^(7i) * G                                                    *)
ecp_nistz256_precomputed ==
  [i \in 0..(NumRows - 1) |->
     [j \in 1..RowSize |-> [m |-> (j * Pow2Mod(kWindowSize7 * i)) % Order]]]

ecp_nistz256_select_w7(row, index) ==
  IF index \in 1..RowSize THEN row[index] ELSE [m |-> 0]

(* ----------------------------------------------------------------------- *)
(* Reduction of a scalar modulo the group order                            *)
(* ----------------------------------------------------------------------- *)
RECURSIVE DigitsMod(_, _, _)
DigitsMod(bn, i, acc) ==
  IF i = 0 THEN acc
  ELSE LET limb == bn.d[((i - 1) \div 4) + 1]
           h    == limb[((i - 1) % 4) + 1]
           a2   == (acc * HalfMod + h) % Order
       IN  IF Evaluated(a2) THEN DigitsMod(bn, i - 1, a2) ELSE a2

(* the value of bn modulo Order, in 0..Order-1 *)
BnModOrder(bn) ==
  LET v == DigitsMod(bn, 4 * Len(bn.d), 0)
  IN  IF bn.neg THEN (Order - v) % Order ELSE v

(* a value below 2^16 as a normalised BIGNUM *)
BnOfSmall(v) ==
  [neg |-> FALSE, d |-> IF v = 0 THEN << >> ELSE << <<v, 0, 0, 0>> >>]

BN_nnmod(bn) == BnOfSmall(BnModOrder(bn))

(* ----------------------------------------------------------------------- *)
(* PointTableBuilder: lines 364-385.  The row of a point has 16 entries,   *)
(* entry k at offset k - 1 of the row.                                     *)
(* ----------------------------------------------------------------------- *)
TDbl(dst, a)    == [op |-> "double", dst |-> dst, a |-> a, b |-> a]
TAdd(dst, a, b) == [op |-> "add", dst |-> dst, a |-> a, b |-> b]

(* the chain with entry 11 computed before entry 10 *)
TableProgram_early11 ==
  <<TDbl(2, 1), TAdd(3, 2, 1), TDbl(4, 2), TDbl(6, 3), TDbl(8, 4),
    TDbl(12, 6), TAdd(5, 4, 1), TAdd(7, 6, 1), TAdd(9, 8, 1),
    TAdd(13, 12, 1), TDbl(14, 7), TAdd(11, 10, 1), TDbl(10, 5),
    TAdd(15, 14, 1), TAdd(16, 15, 1)>>

TableProgram ==
  <<TDbl(2, 1), TAdd(3, 2, 1), TDbl(4, 2), TDbl(6, 3), TDbl(8, 4),
    TDbl(12, 6), TAdd(5, 4, 1), TAdd(7, 6, 1), TAdd(9, 8, 1),
    TAdd(13, 12, 1), TDbl(14, 7), TDbl(10, 5), TAdd(15, 14, 1),
    TAdd(11, 10, 1), TAdd(16, 15, 1)>>

(* a row before it is built: [e: entries, w: writes per entry,             *)
(* fresh: every read so far was of an entry written before]                *)
RowEntry(pt) ==
  [e |-> [k \in 1..TableSize |-> IF k = 1 THEN pt ELSE Indet],
   w |-> [k \in 1..TableSize |-> IF k = 1 THEN 1 ELSE 0],
   fresh |-> TRUE]

TableStep(row, instr) ==
  [e |-> [row.e EXCEPT ![instr.dst] =
            IF instr.op = "double" THEN ecp_nistz256_point_double(row.e[instr.a])
            ELSE ecp_nistz256_point_add(row.e[instr.a], row.e[instr.b])],
   w |-> [row.w EXCEPT ![instr.dst] = @ + 1],
   fresh |-> row.fresh /\ row.w[instr.a] > 0 /\ row.w[instr.b] > 0]

RECURSIVE TableRun(_, _)
TableRun(row, k) ==
  IF k > Len(TableProgram) THEN row
  ELSE LET r2 == TableStep(row, TableProgram[k])
       IN  IF Evaluated(r2) THEN TableRun(r2, k + 1) ELSE r2

BuildRow(pt) == TableRun(RowEntry(pt), 1)

TableOps == [k \in 1..Len(TableProgram) |-> TableProgram[k].op]

(* ----------------------------------------------------------------------- *)
(* The generator path: lines 532-561                                       *)
(* ----------------------------------------------------------------------- *)
NegateAffine(t, sign) ==
  [t EXCEPT !.m = copy_conditional(t.m, NegY(t.m), sign)]

(* the seed p: row 0 selected by magnitude, negated by sign, Z = ONE *)
GeneratorSeed(p_str) ==
  LET wvalue == booth_recode_w7(FirstWindowW7(p_str))
      a      == ecp_nistz256_select_w7(ecp_nistz256_precomputed[0], Mag(wvalue))
      y      == NegateAffine(a, Sign(wvalue))
  IN  Pt(y.m, 1)

RECURSIVE GeneratorRows(_, _, _, _)
GeneratorRows(p, p_str, i, index) ==
  IF i >= NumRows THEN p
  ELSE LET wvalue == booth_recode_w7(WindowW7(p_str, index))
           t      == ecp_nistz256_select_w7(ecp_nistz256_precomputed[i], Mag(wvalue))
           tn     == NegateAffine(t, Sign(wvalue))
           p2     == ecp_nistz256_point_add_affine(p, tn)
       IN  IF Evaluated(p2)
             THEN GeneratorRows(p2, p_str, i + 1, index + kWindowSize7)
             ELSE p2

GeneratorMul(p_str) == GeneratorRows(GeneratorSeed(p_str), p_str, 1, kWindowSize7)

(* what the path executes: one event per loop iteration, with the          *)
(* primitive operations of its body                                        *)
GeneratorOps ==
  <<"select_w7,neg,copy_conditional">> \o
  [i \in 1..(NumRows - 1) |-> "select_w7,neg,copy_conditional,point_add_affine"]

(* ----------------------------------------------------------------------- *)
(* The general path, after the tables are built: lines 388-435.            *)
(* strs[i], rows[i] (i = 1..num) are p_str[i-1], table[i-1].               *)
(* ----------------------------------------------------------------------- *)
WindowAdd(r, row, wvalue) ==
  LET rec == booth_recode_w5(wvalue)
      h   == ecp_nistz256_select_w5(row, Mag(rec))
  IN  ecp_nistz256_point_add(r, ConditionalNegate(h, Sign(rec)))

RECURSIVE LadderPoints(_, _, _, _, _, _)
LadderPoints(r, strs, rows, i, num, index) ==
  IF i > num THEN r
  ELSE LadderPoints(WindowAdd(r, rows[i], WindowW5(strs[i], index)),
                    strs, rows, i + 1, num, index)

RECURSIVE FinalPoints(_, _, _, _, _)
FinalPoints(r, strs, rows, i, num) ==
  IF i > num THEN r
  ELSE FinalPoints(WindowAdd(r, rows[i], FinalWindowW5(strs[i])),
                   strs, rows, i + 1, num)

Double5(r) ==
  ecp_nistz256_point_double(ecp_nistz256_point_double(ecp_nistz256_point_double(
    ecp_nistz256_point_double(ecp_nistz256_point_double(r)))))

(* (the accumulator is a value before the next window is entered) *)
RECURSIVE LadderWindows(_, _, _, _, _)
LadderWindows(r, strs, rows, num, index) ==
  IF index >= 5
    THEN LET r2 == Double5(LadderPoints(r, strs, rows,
                                        IF index = 255 THEN 2 ELSE 1, num, index))
         IN  IF Evaluated(r2)
               THEN LadderWindows(r2, strs, rows, num, index - kWindowSize5)
               ELSE r2
    ELSE FinalPoints(r, strs, rows, 1, num)

LadderSeed(strs, rows) ==
  ecp_nistz256_select_w5(rows[1], Mag(booth_recode_w5(SeedWindowW5(strs[1]))))

WindowedLadder(strs, rows, num) ==
  LadderWindows(LadderSeed(strs, rows), strs, rows, num, 255)

RECURSIVE LadderOpsFrom(_, _)
LadderOpsFrom(num, index) ==
  IF index >= 5
    THEN [i \in 1..(num - (IF index = 255 THEN 1 ELSE 0)) |->
            "select_w5,neg,copy_conditional,point_add"]
         \o <<"point_double,point_double,point_double,point_double,point_double">>
         \o LadderOpsFrom(num, index - kWindowSize5)
    ELSE [i \in 1..num |-> "select_w5,neg,copy_conditional,point_add"]

LadderOps(num) == <<"select_w5">> \o LadderOpsFrom(num, 255)

(* the serialisation loops of a scalar: iterations of the limb loop and    *)
(* of the zero-fill loop                                                   *)
SerializeOps(bn) ==
  <<[ev |-> "limb loop", n |-> BnTop(bn)],
    [ev |-> "zero loop",
     n |-> IF BnTop(bn) * BN_BYTES >= StrLen THEN 0
           ELSE StrLen - BnTop(bn) * BN_BYTES]>>

ReduceOps(bn) == <<[ev |-> "reduce branch", n |-> IF NeedsReduction(bn) THEN 1 ELSE 0]>>

(* the indices of a p_str buffer that the code touches: those written by   *)
(* the serialisation loops of a scalar, and those read for a window        *)
SerializeIdx(bn) ==
  {j + k : j \in {BN_BYTES * l : l \in 0..(BnTop(bn) - 1)}, k \in 0..(BN_BYTES - 1)}
  \cup (BnTop(bn) * BN_BYTES)..(StrLen - 1)

WindowIdx(index) == LET off == (index - 1) \div 8 IN {off, off + 1}

(* lines 533 and 547-550: i = 1..36, index = 7, 14, .., 252 *)
GeneratorIdx ==
  {0} \cup UNION {WindowIdx(kWindowSize7 * i) : i \in 1..(NumRows - 1)}

(* lines 390-391, 396-401 (index = 255, 250, .., 5; at 255 the loop starts *)
(* at point 1) and 423-424                                                 *)
LadderIdx(num) ==
  {(255 - 1) \div 8}
  \cup UNION {IF index = 255 /\ num < 2 THEN {} ELSE WindowIdx(index) :
                index \in {255 - kWindowSize5 * j : j \in 0..50}}
  \cup {0}

(* what serialising bn adds to the record of touched bytes *)
Touch(log, bn) ==
  [log EXCEPT !.idx = @ \cup SerializeIdx(bn),
              !.nbytes = @ \cup {BnTop(bn) * BN_BYTES},
              !.guard = @ \cup {Serialize(bn)[StrLen - 1]}]

(* ----------------------------------------------------------------------- *)
(* Reference: double-and-add over the bits of the scalar, highest first    *)
(* ----------------------------------------------------------------------- *)
(* bits hi down to lo of bn *)
RECURSIVE DoubleAndAdd(_, _, _, _, _)
DoubleAndAdd(bn, m, hi, lo, acc) ==
  IF hi < lo THEN acc
  ELSE IF hi = lo THEN (2 * acc + BnBit(bn, hi) * m) % Order
  ELSE LET mid == (lo + hi + 1) \div 2
           a2  == DoubleAndAdd(bn, m, hi, mid, acc)
       IN  IF Evaluated(a2) THEN DoubleAndAdd(bn, m, mid - 1, lo, a2) ELSE a2

(* bn * (m*G), as a multiple of G *)
RefMul(bn, m) ==
  LET v == DoubleAndAdd(bn, m, 64 * Len(bn.d) - 1, 0, 0)
  IN  IF bn.neg THEN (Order - v) % Order ELSE v

(* ----------------------------------------------------------------------- *)
(* EC_POINT as ecp_nistz256_get_affine reads it: each coordinate is        *)
(* "zero", "sym" (a nonzero value of at most P256_LIMBS limbs) or "wide"   *)
(* (more than P256_LIMBS limbs)                                            *)
(* ----------------------------------------------------------------------- *)
CoordKinds == {"zero", "sym", "wide"}

(* copies in to out and returns one if it fits, zero otherwise *)
ecp_nistz256_bignum_to_field_elem(kind, sym) ==
  IF kind = "wide" THEN [ok |-> FALSE, out |-> FUndef]
  ELSE [ok |-> TRUE, out |-> IF kind = "zero" THEN FZero ELSE sym]

EC_POINT_is_at_infinity(point) == point.Z = "zero"

(* the conversion with x_aff and y_aff exchanged on output *)
ecp_nistz256_get_affine_swapped(point, wantx, wanty, x0, y0) ==
  LET point_x == ecp_nistz256_bignum_to_field_elem(point.X, SymX)
      point_y == ecp_nistz256_bignum_to_field_elem(point.Y, SymY)
      point_z == ecp_nistz256_bignum_to_field_elem(point.Z, SymZ)
      z_inv3  == ecp_nistz256_mod_inverse(point_z.out)
      z_inv2  == ecp_nistz256_sqr_mont(z_inv3)
      x_aff   == ecp_nistz256_mul_mont(z_inv2, point_x.out)
      z_inv3b == ecp_nistz256_mul_mont(z_inv3, z_inv2)
      y_aff   == ecp_nistz256_mul_mont(z_inv3b, point_y.out)
  IN  IF EC_POINT_is_at_infinity(point)
        THEN [ret |-> 0, err |-> "POINT_AT_INFINITY", x |-> x0, y |-> y0]
      ELSE IF ~point_x.ok \/ ~point_y.ok \/ ~point_z.ok
        THEN [ret |-> 0, err |-> "COORDINATES_OUT_OF_RANGE", x |-> x0, y |-> y0]
      ELSE [ret |-> 1, err |-> "",
            x |-> IF wantx THEN ecp_nistz256_from_mont(y_aff) ELSE x0,
            y |-> IF wanty THEN ecp_nistz256_from_mont(x_aff) ELSE y0]

ecp_nistz256_get_affine(point, wantx, wanty, x0, y0) ==
  LET point_x == ecp_nistz256_bignum_to_field_elem(point.X, SymX)
      point_y == ecp_nistz256_bignum_to_field_elem(point.Y, SymY)
      point_z == ecp_nistz256_bignum_to_field_elem(point.Z, SymZ)
      z_inv3  == ecp_nistz256_mod_inverse(point_z.out)
      z_inv2  == ecp_nistz256_sqr_mont(z_inv3)
      x_aff   == ecp_nistz256_mul_mont(z_inv2, point_x.out)
      z_inv3b == ecp_nistz256_mul_mont(z_inv3, z_inv2)
      y_aff   == ecp_nistz256_mul_mont(z_inv3b, point_y.out)
  IN  IF EC_POINT_is_at_infinity(point)
        THEN [ret |-> 0, err |-> "POINT_AT_INFINITY", x |-> x0, y |-> y0]
      ELSE IF ~point_x.ok \/ ~point_y.ok \/ ~point_z.ok
        THEN [ret |-> 0, err |-> "COORDINATES_OUT_OF_RANGE", x |-> x0, y |-> y0]
      ELSE [ret |-> 1, err |-> "",
            x |-> IF wantx THEN ecp_nistz256_from_mont(x_aff) ELSE x0,
            y |-> IF wanty THEN ecp_nistz256_from_mont(y_aff) ELSE y0]

(* the EC_POINT that the result [m, z] of a multiplication is *)
PointOf(r) ==
  [X |-> IF r.m = 0 THEN "zero" ELSE "sym",
   Y |-> IF r.m = 0 THEN "zero" ELSE "sym",
   Z |-> IF r.z = 0 THEN "zero" ELSE "sym"]

(* ----------------------------------------------------------------------- *)
(* Scratch memory of a multiplication                                      *)
(* ----------------------------------------------------------------------- *)
WmulBufs == {"table_storage", "p_str", "scalars"}
FoldBufs == {"new_scalars", "new_points"}
Bufs == WmulBufs \cup FoldBufs

(* OPENSSL_free(b): nothing for a pointer that is NULL *)
Release(heap, b) ==
  IF heap.st[b] \in {"none", "null"} THEN heap
  ELSE [st |-> [heap.st EXCEPT ![b] = "freed"],
        frees |-> [heap.frees EXCEPT ![b] = @ + 1]]

(* err without OPENSSL_free(p_str) *)
WmulRelease_leak(heap) == Release(Release(heap, "table_storage"), "scalars")

(* lines 437-440 *)
WmulRelease(heap) ==
  Release(Release(Release(heap, "table_storage"), "p_str"), "scalars")

(* lines 619-622 *)
FoldRelease(heap) == Release(Release(heap, "new_points"), "new_scalars")

(* ecp_nistz256_is_affine_G *)
ecp_nistz256_is_affine_G(generator) == generator.affineG

(* ----------------------------------------------------------------------- *)
(* State                                                                   *)
(* ----------------------------------------------------------------------- *)
VARIABLES
  b_pc,      \* recoding run: "seed", "loop", "final", "first", "rows", "done", "off"
  b_w,       \* window width of the run (5 or 7)
  b_bn,      \* the scalar (a BIGNUM of at most P256_LIMBS limbs)
  b_first,   \* general path: is this the scalar of point 0 (whose top window seeds)
  b_str,     \* its serialisation p_str
  b_index,   \* the loop variable index
  b_dig,     \* recoded windows so far: bit position -> recoded value
  i_pc,      \* inverter run: number of operations of InvProgram done (-1: no run)
  i_regs,    \* inverter run: in, res, p2, p4, p8, p16, p32
  a_pc,      \* affine conversion: "call", "done", "off"
  a_point,   \* its argument point
  a_want,    \* <<x requested, y requested>>
  a_out,     \* [ret, err, x, y]: return value, error, contents of x and of y
  m_pc,      \* multiplication: the place in ecp_nistz256_points_mul
  m_in,      \* the arguments of the call: [gen, scalar, num, points, scalars]
  m_scalar,  \* scalar: [null, bn]
  m_num,     \* num
  m_points,  \* points[0..num-1]: sequence of [m, z, wide]
  m_scalars, \* scalars[0..num-1]
  m_p,       \* p.p
  m_t,       \* t.p
  m_flags,   \* [p_is_infinity, no_precomp_for_generator]
  m_heap,    \* scratch buffers: [st: state, frees: releases] per buffer
  m_uaf,     \* a scratch buffer was used when it was not live
  w_i,       \* windowed_mul: i of the per-point loop
  w_strs,    \* windowed_mul: p_str[i]
  w_rows,    \* windowed_mul: table[i]
  w_fail,    \* windowed_mul: the failure that made it jump to err ("" if none)
  m_ret,     \* value returned (-1 while the call runs)
  m_err,     \* error reported
  m_r,       \* the result point r
  m_log,     \* [ops, ops1, injected, merges, ran, idx, nbytes, guard]: what
             \* was executed and which bytes of the p_str buffers were touched
  r_pc,      \* one recoding: "call", "done", "off"
  r_kind,    \* its call site: "w5", "w7" or "seed" (the window that seeds r)
  r_in,      \* the masked window (w5, w7) or the byte p_str[0][31] (seed)
  r_wvalue,  \* wvalue given to the recoding
  r_out,     \* the recoded value
  r_index    \* the index given to the table selector

boothVars == <<b_pc, b_w, b_bn, b_first, b_str, b_index, b_dig>>

invVars == <<i_pc, i_regs>>

affVars == <<a_pc, a_point, a_want, a_out>>
mulVars == <<m_pc, m_in, m_scalar, m_num, m_points, m_scalars, m_p, m_t, m_flags,
             m_heap, m_uaf, w_i, w_strs, w_rows, w_fail, m_ret, m_err, m_r, m_log>>

recVars == <<r_pc, r_kind, r_in, r_wvalue, r_out, r_index>>

vars == <<boothVars, invVars, affVars, mulVars, recVars>>

(* ----------------------------------------------------------------------- *)
(* Scalars                                                                 *)
(* ----------------------------------------------------------------------- *)
LimbSet == {LimbZero, LimbOne, LimbOnes, LimbHigh, LimbMix}

(* normalised magnitudes of exactly n limbs (the top limb is not zero) *)
Magnitudes(n) ==
  IF n = 0 THEN {<< >>}
  ELSE {d \in [1..n -> LimbSet] : d[n] # LimbZero}

FieldWidthScalars ==
  {[neg |-> FALSE, d |-> d] : d \in UNION {Magnitudes(n) : n \in 0..P256_LIMBS}}

(* ----------------------------------------------------------------------- *)
(* The recoding run: the windows of one scalar, in the order the two       *)
(* multiplication loops take them                                          *)
(* ----------------------------------------------------------------------- *)
PutDigit(dig, pos, rec) ==
  [p \in DOMAIN dig \cup {pos} |-> IF p = pos THEN rec ELSE dig[p]]

BoothIdle ==
  /\ b_pc = "off" /\ b_w = 0 /\ b_bn = [neg |-> FALSE, d |-> << >>]
  /\ b_first = FALSE /\ b_str = << >> /\ b_index = 0 /\ b_dig = << >>

InvIdle == i_pc = -1 /\ i_regs = InvEntry(FZero)

NoOut == [ret |-> -1, err |-> "", x |-> FUndef, y |-> FUndef]

AffIdle ==
  /\ a_pc = "off" /\ a_point = [X |-> "zero", Y |-> "zero", Z |-> "zero"]
  /\ a_want = <<FALSE, FALSE>> /\ a_out = NoOut

RecIdle ==
  /\ r_pc = "off" /\ r_kind = "off"
  /\ r_in = 0 /\ r_wvalue = 0 /\ r_out = 0 /\ r_index = 0

BnZero == [neg |-> FALSE, d |-> << >>]
NoGen == [null |-> TRUE, m |-> 0, affineG |-> FALSE]
HeapEmpty == [st |-> [b \in Bufs |-> "none"], frees |-> [b \in Bufs |-> 0]]
LogEmpty == [ops |-> << >>, ops1 |-> << >>, injected |-> FALSE, merges |-> 0,
             ran |-> {}, idx |-> {}, nbytes |-> {}, guard |-> {}]

MulLocalsInit ==
  /\ m_p = Indet /\ m_t = Indet
  /\ m_flags = [p_is_infinity |-> FALSE, no_precomp_for_generator |-> FALSE]
  /\ m_heap = HeapEmpty /\ m_uaf = FALSE
  /\ w_i = 0 /\ w_strs = << >> /\ w_rows = << >> /\ w_fail = ""
  /\ m_ret = -1 /\ m_err = "" /\ m_log = LogEmpty

MulIdle ==
  /\ m_pc = "off"
  /\ m_in = [gen |-> NoGen, scalar |-> [null |-> TRUE, bn |-> BnZero], num |-> 0,
             points |-> << >>, scalars |-> << >>]
  /\ m_scalar = m_in.scalar /\ m_num = 0 /\ m_points = << >> /\ m_scalars = << >>
  /\ m_r = PtZero
  /\ MulLocalsInit

BoothInit ==
  /\ InvIdle /\ AffIdle /\ MulIdle /\ RecIdle
  /\ b_w \in {kWindowSize5, kWindowSize7}
  /\ b_bn \in FieldWidthScalars
  /\ b_first \in IF b_w = kWindowSize5 THEN BOOLEAN ELSE {FALSE}
  /\ b_str = Serialize(b_bn)
  /\ b_pc = IF b_w = kWindowSize5 THEN "seed" ELSE "first"
  /\ b_index = IF b_w = kWindowSize5 THEN 255 ELSE kWindowSize7
  /\ b_dig = << >>

(* lines 390-394 (point 0) and the first pass of the loop (other points) *)
B5Seed ==
  /\ b_pc = "seed"
  /\ LET wv == IF b_first THEN SeedWindowW5(b_str) ELSE WindowW5(b_str, b_index)
         rec == booth_recode_w5(wv)
     IN  b_dig' = PutDigit(b_dig, b_index,
                           IF b_first THEN Shl(Mag(rec), 1) ELSE rec)
  /\ b_index' = b_index - kWindowSize5
  /\ b_pc' = "loop"
  /\ UNCHANGED <<b_w, b_bn, b_first, b_str, invVars, affVars, mulVars, recVars>>

(* lines 396-420 *)
B5Loop ==
  /\ b_pc = "loop"
  /\ IF b_index >= 5
       THEN /\ b_dig' = PutDigit(b_dig, b_index,
                                 booth_recode_w5(WindowW5(b_str, b_index)))
            /\ b_index' = b_index - kWindowSize5
            /\ b_pc' = "loop"
       ELSE /\ b_pc' = "final"
            /\ UNCHANGED <<b_dig, b_index>>
  /\ UNCHANGED <<b_w, b_bn, b_first, b_str, invVars, affVars, mulVars, recVars>>

(* lines 422-435 *)
B5Final ==
  /\ b_pc = "final"
  /\ b_dig' = PutDigit(b_dig, 0, booth_recode_w5(FinalWindowW5(b_str)))
  /\ b_pc' = "done"
  /\ UNCHANGED <<b_w, b_bn, b_first, b_str, b_index, invVars, affVars, mulVars, recVars>>

(* lines 532-536 *)
B7First ==
  /\ b_pc = "first"
  /\ b_dig' = PutDigit(b_dig, 0, booth_recode_w7(FirstWindowW7(b_str)))
  /\ b_pc' = "rows"
  /\ UNCHANGED <<b_w, b_bn, b_first, b_str, b_index, invVars, affVars, mulVars, recVars>>

(* lines 547-553: i = 1..36, index = 7 * i *)
B7Row ==
  /\ b_pc = "rows"
  /\ IF b_index \div kWindowSize7 < NumRows
       THEN /\ b_dig' = PutDigit(b_dig, b_index,
                                 booth_recode_w7(WindowW7(b_str, b_index)))
            /\ b_index' = b_index + kWindowSize7
            /\ b_pc' = "rows"
       ELSE /\ b_pc' = "done"
            /\ UNCHANGED <<b_dig, b_index>>
  /\ UNCHANGED <<b_w, b_bn, b_first, b_str, invVars, affVars, mulVars, recVars>>

BoothNext == B5Seed \/ B5Loop \/ B5Final \/ B7First \/ B7Row

SpecBooth == BoothInit /\ [][BoothNext]_vars

(* ----------------------------------------------------------------------- *)
(* The value of a run of recoded windows, in base 2^w                      *)
(* ----------------------------------------------------------------------- *)
DigitValue(rec) == IF Sign(rec) = 1 THEN 0 - Mag(rec) ELSE Mag(rec)

RECURSIVE BitsOf(_, _, _)
BitsOf(bn, pos, n) ==
  IF n = 0 THEN 0 ELSE BnBit(bn, pos) + 2 * BitsOf(bn, pos + 1, n - 1)

(* Adds the signed digits dig[0], dig[w], .. with carries, lowest first,   *)
(* and compares the base-2^w digits of the sum with those of bn: TRUE iff  *)
(* sum of DigitValue(dig[w*j]) * 2^(w*j), j < n, equals bn.                *)
RECURSIVE SumEquals(_, _, _, _, _, _)
SumEquals(dig, w, j, n, carry, bn) ==
  IF j = n THEN carry = 0 /\ \A k \in 0..63 : BnBit(bn, w * n + k) = 0
  ELSE LET t == DigitValue(dig[w * j]) + carry
           u == t % (2^w)
       IN  /\ u = BitsOf(bn, w * j, w)
           /\ SumEquals(dig, w, j + 1, n, (t - u) \div (2^w), bn)

NumWindows(w) == IF w = kWindowSize5 THEN 52 ELSE NumRows

(* C5: when all windows of a scalar s < 2^256 have been recoded (w = 5:   *)
(* positions 0, 5, .., 255; w = 7: positions 0, 7, .., 252), the sum of   *)
(* (-1)^sign * magnitude * 2^position over the windows equals s.          *)
BoothReconstructs ==
  b_pc = "done" =>
    /\ DOMAIN b_dig = {b_w * j : j \in 0..(NumWindows(b_w) - 1)}
    /\ SumEquals(b_dig, b_w, 0, NumWindows(b_w), 0, b_bn)

BoothWitness ==
  /\ b_pc = "done"
  /\ b_w = kWindowSize5
  /\ Len(b_bn.d) = P256_LIMBS
  /\ \E p \in DOMAIN b_dig : Sign(b_dig[p]) = 1 /\ Mag(b_dig[p]) > 0
  /\ SumEquals(b_dig, b_w, 0, NumWindows(b_w), 0, b_bn)

(* ----------------------------------------------------------------------- *)
(* The inverter run: ecp_nistz256_mod_inverse, one operation per step      *)
(* ----------------------------------------------------------------------- *)
InvInit ==
  /\ BoothIdle /\ AffIdle /\ MulIdle /\ RecIdle
  /\ i_pc = 0
  /\ i_regs \in {InvEntry(FZero), InvEntry(SymZ)}

InvOp ==
  /\ i_pc >= 0 /\ i_pc < Len(InvProgram)
  /\ i_regs' = InvStep(i_regs, InvProgram[i_pc + 1])
  /\ i_pc' = i_pc + 1
  /\ UNCHANGED <<boothVars, affVars, mulVars, recVars>>

InvNext == InvOp

SpecInv == InvInit /\ [][InvNext]_vars

InvDone == i_pc = Len(InvProgram)

(* a^(2^k - 1) in the Montgomery domain, for k <= 32 *)
PowMinus1(k) ==
  FMono(0, 0, [i \in 1..BigLen |->
                 IF i = 1 THEN (IF k >= 16 THEN 65535 ELSE 2^k - 1)
                 ELSE IF i = 2 /\ k > 16 THEN 2^(k - 16) - 1
                 ELSE 0], 1)

(* C6: the inverter's operations accumulate the exponent p - 2: for a     *)
(* nonzero a, inverse(a) = a^(p-2) and inverse(a) * a is one; inverse(0)  *)
(* is 0; once written, p2, p4, p8, p16, p32 hold a^(2^k - 1) for          *)
(* k = 2, 4, 8, 16, 32.                                                    *)
InverseIsFermat ==
  /\ (InvDone /\ i_regs["in"].zero) => i_regs["res"] = FZero
  /\ (InvDone /\ ~i_regs["in"].zero) =>
        /\ i_regs["res"] = FMono(0, 0, PMinus2, 1)
        /\ SameElement(ecp_nistz256_mul_mont(i_regs["res"], i_regs["in"]), ONE)
  /\ (i_pc >= 0 /\ ~i_regs["in"].zero) =>
        /\ ~i_regs["p2"].undef => i_regs["p2"] = PowMinus1(2)
        /\ ~i_regs["p4"].undef => i_regs["p4"] = PowMinus1(4)
        /\ ~i_regs["p8"].undef => i_regs["p8"] = PowMinus1(8)
        /\ ~i_regs["p16"].undef => i_regs["p16"] = PowMinus1(16)
        /\ ~i_regs["p32"].undef => i_regs["p32"] = PowMinus1(32)
  /\ InvDone => \A g \in InvRegs : ~i_regs[g].undef

InverseWitness ==
  /\ InvDone
  /\ ~i_regs["in"].zero
  /\ i_regs["res"].ez = PMinus2
  /\ i_regs["p32"] = PowMinus1(32)

(* ----------------------------------------------------------------------- *)
(* The affine conversion: one call of ecp_nistz256_get_affine              *)
(* ----------------------------------------------------------------------- *)
AffInit ==
  /\ BoothIdle /\ InvIdle /\ MulIdle /\ RecIdle
  /\ a_pc = "call"
  /\ a_point \in [X : CoordKinds, Y : CoordKinds, Z : CoordKinds]
  /\ a_want \in BOOLEAN \X BOOLEAN
  /\ a_out = NoOut

AffCall ==
  /\ a_pc = "call"
  /\ a_out' = ecp_nistz256_get_affine(a_point, a_want[1], a_want[2],
                                      a_out.x, a_out.y)
  /\ a_pc' = "done"
  /\ UNCHANGED <<a_point, a_want, boothVars, invVars, mulVars, recVars>>

AffNext == AffCall

SpecAffine == AffInit /\ [][AffNext]_vars

(* out = num * Z^-k out of the Montgomery domain, num the coordinate X     *)
(* (ex = 1) or Y (ey = 1) of kind `kind`                                   *)
IsQuotient(out, kind, ex, ey, k) ==
  IF kind = "zero" THEN out = FZero
  ELSE /\ ~out.zero /\ ~out.undef
       /\ out.ex = ex /\ out.ey = ey /\ out.r = 0
       /\ IsMultipleOfPMinus1(BigAdd(out.ez, BigOf(k)))

Fits(point) == point.X # "wide" /\ point.Y # "wide" /\ point.Z # "wide"

(* C7: for a point that is not at infinity and whose coordinates fit,     *)
(* get_affine succeeds with x = X * Z^-2 and y = Y * Z^-3 out of the      *)
(* Montgomery domain, x and y written only when requested (x the same     *)
(* whether or not y is requested); a failed call writes neither.          *)
AffineCorrect ==
  a_pc = "done" =>
    /\ (~EC_POINT_is_at_infinity(a_point) /\ Fits(a_point)) =>
         /\ a_out.ret = 1
         /\ IF a_want[1] THEN IsQuotient(a_out.x, a_point.X, 1, 0, 2)
                         ELSE a_out.x = FUndef
         /\ IF a_want[2] THEN IsQuotient(a_out.y, a_point.Y, 0, 1, 3)
                         ELSE a_out.y = FUndef
    /\ EC_POINT_is_at_infinity(a_point) =>
         a_out.ret = 0 /\ a_out.err = "POINT_AT_INFINITY"
    /\ (~EC_POINT_is_at_infinity(a_point) /\ ~Fits(a_point)) =>
         a_out.ret = 0 /\ a_out.err = "COORDINATES_OUT_OF_RANGE"
    /\ a_out.ret = 0 => a_out.x = FUndef /\ a_out.y = FUndef

AffineWitness ==
  /\ a_pc = "done"
  /\ a_point = [X |-> "sym", Y |-> "sym", Z |-> "sym"]
  /\ a_want = <<TRUE, TRUE>>
  /\ a_out.ret = 1
  /\ a_out.x.ez = BigAdd(PMinus2, PMinus2)

(* ----------------------------------------------------------------------- *)
(* The multiplication: one call of ecp_nistz256_points_mul, then the       *)
(* affine conversion of its result                                         *)
(* ----------------------------------------------------------------------- *)
Bn(limbs) == [neg |-> FALSE, d |-> limbs]
BnOne == Bn(<<LimbOne>>)
BnMix == Bn(<<LimbMix, LimbOnes, LimbHigh, LimbOnes>>)
BnWide == Bn([i \in 1..MaxTop |-> IF i = MaxTop THEN LimbOne ELSE LimbMix])
BnMinusOne == [neg |-> TRUE, d |-> <<LimbOne>>]

GenScalars == {BnZero, BnOne, Bn(<<LimbOnes, LimbOnes, LimbOnes, LimbOnes>>),
               BnMix, BnWide, BnMinusOne}
(* auxiliary (point, scalar) pairs: a finite point with a scalar of four   *)
(* limbs, with one that needs reduction and with zero; the point at        *)
(* infinity; a point whose coordinates take more than P256_LIMBS limbs     *)
AuxPair(m, z, wide, k) ==
  [point |-> [m |-> m, z |-> z, wide |-> wide], scalar |-> k]

AuxPairs == {AuxPair(2, 1, FALSE, BnMix), AuxPair(2, 1, FALSE, BnWide),
             AuxPair(2, 1, FALSE, BnZero), AuxPair(0, 0, FALSE, BnMix),
             AuxPair(5, 1, TRUE, BnMix)}

(* the group's generator: none, the standard one in affine form (Z = ONE), *)
(* or the same point in another representation                             *)
StdGen == [null |-> FALSE, m |-> 1, affineG |-> TRUE]
JacGen == [null |-> FALSE, m |-> 1, affineG |-> FALSE]
Generators == {NoGen, StdGen, JacGen}

(* 0xffffff, the bound on num at line 578 *)
NumLimit == 16777215

MulInit ==
  /\ BoothIdle /\ InvIdle /\ AffIdle /\ RecIdle
  /\ m_pc = "call"
  /\ \E n \in 0..MaxNum : \E pairs \in [1..n -> AuxPairs] :
       m_in \in [gen : Generators,
                 scalar : {[null |-> TRUE, bn |-> BnZero]}
                          \cup {[null |-> FALSE, bn |-> k] : k \in GenScalars},
                 num : {n},
                 points : {[i \in 1..n |-> pairs[i].point]},
                 scalars : {[i \in 1..n |-> pairs[i].scalar]}]
  /\ m_scalar = m_in.scalar /\ m_num = m_in.num
  /\ m_points = m_in.points /\ m_scalars = m_in.scalars
  /\ m_r = Pt(3, 1)
  /\ MulLocalsInit

Log(ops, ops1) ==
  [m_log EXCEPT !.ops = @ \o ops, !.ops1 = @ \o ops1]

Uses(bufs) == \E b \in bufs : m_heap.st[b] # "live"

(* lines 476-496 and 562-568 *)
MulCall ==
  /\ m_pc = "call"
  /\ IF m_scalar.null /\ m_num = 0
       THEN /\ m_r' = [m_r EXCEPT !.z = 0] /\ m_ret' = 1 /\ m_pc' = "done"
            /\ UNCHANGED <<m_flags, m_err>>
       ELSE /\ m_r' = Indet
            /\ IF ~m_scalar.null
                 THEN IF m_in.gen.null
                        THEN /\ m_err' = "UNDEFINED_GENERATOR"
                             /\ m_ret' = 0 /\ m_pc' = "done"
                             /\ UNCHANGED m_flags
                      ELSE IF ecp_nistz256_is_affine_G(m_in.gen)
                        THEN /\ m_pc' = "reduce"
                             /\ UNCHANGED <<m_flags, m_err, m_ret>>
                      ELSE /\ m_flags' = [p_is_infinity |-> TRUE,
                                          no_precomp_for_generator |-> TRUE]
                           /\ m_pc' = "fold"
                           /\ UNCHANGED <<m_err, m_ret>>
                 ELSE /\ m_flags' = [m_flags EXCEPT !.p_is_infinity = TRUE]
                      /\ m_pc' = "fold"
                      /\ UNCHANGED <<m_err, m_ret>>
  /\ UNCHANGED <<m_in, m_scalar, m_num, m_points, m_scalars, m_p, m_t, m_heap,
                 m_uaf, w_i, w_strs, w_rows, w_fail, m_log,
                 boothVars, invVars, affVars, recVars>>

(* lines 497-508; BN_CTX_get and BN_nnmod may fail *)
MulReduce ==
  /\ m_pc = "reduce"
  /\ IF NeedsReduction(m_scalar.bn)
       THEN \E outcome \in {"ok", "BN_CTX_get", "BN_nnmod"} :
              IF outcome = "ok"
                THEN /\ m_scalar' = [m_scalar EXCEPT !.bn = BN_nnmod(@)]
                     /\ m_pc' = "generator"
                     /\ m_log' = Log(ReduceOps(m_scalar.bn), ReduceOps(BnOne))
                     /\ UNCHANGED <<m_ret, m_err>>
                ELSE /\ m_err' = (IF outcome = "BN_nnmod" THEN "BN_LIB" ELSE "")
                     /\ m_ret' = 0 /\ m_pc' = "done"
                     /\ m_log' = [Log(ReduceOps(m_scalar.bn), ReduceOps(BnOne))
                                    EXCEPT !.injected = TRUE]
                     /\ UNCHANGED m_scalar
       ELSE /\ m_pc' = "generator"
            /\ m_log' = Log(ReduceOps(m_scalar.bn), ReduceOps(BnOne))
            /\ UNCHANGED <<m_scalar, m_ret, m_err>>
  /\ UNCHANGED <<m_in, m_num, m_points, m_scalars, m_p, m_t, m_flags, m_heap,
                 m_uaf, w_i, w_strs, w_rows, w_fail, m_r,
                 boothVars, invVars, affVars, recVars>>

(* lines 510-561 *)
MulGenerator ==
  /\ m_pc = "generator"
  /\ m_p' = GeneratorMul(Serialize(m_scalar.bn))
  /\ m_log' = [Touch(Log(SerializeOps(m_scalar.bn) \o GeneratorOps,
                         SerializeOps(BnOne) \o GeneratorOps), m_scalar.bn)
                 EXCEPT !.ran = @ \cup {"generator"},
                        !.idx = @ \cup GeneratorIdx]
  /\ m_pc' = "fold"
  /\ UNCHANGED <<m_in, m_scalar, m_num, m_points, m_scalars, m_t, m_flags,
                 m_heap, m_uaf, w_i, w_strs, w_rows, w_fail, m_ret, m_err, m_r,
                 boothVars, invVars, affVars, recVars>>

Acquire(heap, b, ok) ==
  [heap EXCEPT !.st[b] = IF ok THEN "live" ELSE "null"]

(* lines 570-606; either OPENSSL_malloc may return NULL *)
MulFold ==
  /\ m_pc = "fold"
  /\ IF m_flags.no_precomp_for_generator
       THEN IF NumLimit < m_num
              THEN /\ m_err' = "MALLOC_FAILURE" /\ m_ret' = 0 /\ m_pc' = "done"
                   /\ UNCHANGED <<m_heap, m_scalars, m_points, m_num, m_log>>
            ELSE \E got \in {0, 1, 2} :
              IF got = 0
                THEN /\ m_heap' = Acquire(m_heap, "new_scalars", FALSE)
                     /\ m_err' = "MALLOC_FAILURE" /\ m_ret' = 0 /\ m_pc' = "done"
                     /\ m_log' = [m_log EXCEPT !.injected = TRUE]
                     /\ UNCHANGED <<m_scalars, m_points, m_num>>
              ELSE IF got = 1
                THEN /\ m_heap' = Release(Acquire(Acquire(m_heap, "new_scalars", TRUE),
                                                  "new_points", FALSE),
                                          "new_scalars")
                     /\ m_err' = "MALLOC_FAILURE" /\ m_ret' = 0 /\ m_pc' = "done"
                     /\ m_log' = [m_log EXCEPT !.injected = TRUE]
                     /\ UNCHANGED <<m_scalars, m_points, m_num>>
              ELSE /\ m_heap' = Acquire(Acquire(m_heap, "new_scalars", TRUE),
                                        "new_points", TRUE)
                   /\ m_scalars' = Append(m_scalars, m_scalar.bn)
                   /\ m_points' = Append(m_points,
                                         [m |-> m_in.gen.m, z |-> 1, wide |-> FALSE])
                   /\ m_num' = m_num + 1
                   /\ m_pc' = "alloc"
                   /\ UNCHANGED <<m_err, m_ret, m_log>>
       ELSE /\ m_pc' = IF m_num # 0 THEN "alloc" ELSE "finish"
            /\ UNCHANGED <<m_heap, m_scalars, m_points, m_num, m_err, m_ret, m_log>>
  /\ UNCHANGED <<m_in, m_scalar, m_p, m_t, m_flags, m_uaf, w_i, w_strs, w_rows,
                 w_fail, m_r, boothVars, invVars, affVars, recVars>>

(* lines 307-319; any of the three OPENSSL_malloc calls may return NULL *)
WmulAlloc ==
  /\ m_pc = "alloc"
  /\ \E missing \in {{}} \cup {{b} : b \in WmulBufs} :
       /\ m_heap' = [m_heap EXCEPT !.st =
                       [b \in Bufs |-> IF b \in missing THEN "null"
                                       ELSE IF b \in WmulBufs THEN "live"
                                       ELSE @[b]]]
       /\ IF missing # {}
            THEN /\ w_fail' = "MALLOC_FAILURE" /\ m_err' = "MALLOC_FAILURE"
                 /\ m_log' = [m_log EXCEPT !.injected = TRUE]
                 /\ m_pc' = "release"
            ELSE /\ m_pc' = "point"
                 /\ UNCHANGED <<w_fail, m_err, m_log>>
  /\ w_i' = 0
  /\ UNCHANGED <<m_in, m_scalar, m_num, m_points, m_scalars, m_p, m_t, m_flags,
                 m_uaf, w_strs, w_rows, m_ret, m_r, boothVars, invVars, affVars, recVars>>

(* lines 321-386, one iteration of the loop over the points *)
WmulPoint ==
  /\ m_pc = "point"
  /\ w_i < m_num
  /\ m_uaf' = (m_uaf \/ Uses(WmulBufs)
                     \/ (m_flags.no_precomp_for_generator /\ Uses(FoldBufs)))
  /\ LET sc    == m_scalars[w_i + 1]
         pt    == m_points[w_i + 1]
         red   == IF NeedsReduction(sc) THEN BN_nnmod(sc) ELSE sc
         ops   == ReduceOps(sc) \o SerializeOps(red)
         ops1  == ReduceOps(BnOne) \o SerializeOps(BnOne)
     IN  \E outcome \in IF NeedsReduction(sc) THEN {"ok", "BN_CTX_get", "BN_nnmod"}
                        ELSE {"ok"} :
           IF outcome # "ok"
             THEN /\ w_fail' = outcome
                  /\ m_err' = (IF outcome = "BN_nnmod" THEN "BN_LIB" ELSE m_err)
                  /\ m_log' = [Log(ReduceOps(sc), ReduceOps(BnOne))
                                 EXCEPT !.injected = TRUE]
                  /\ m_pc' = "release"
                  /\ UNCHANGED <<w_i, w_strs, w_rows>>
           ELSE IF pt.wide
             THEN /\ w_strs' = Append(w_strs, Serialize(red))
                  /\ w_fail' = "COORDINATES_OUT_OF_RANGE"
                  /\ m_err' = "COORDINATES_OUT_OF_RANGE"
                  /\ m_log' = Touch(Log(ops, ops1), red)
                  /\ m_pc' = "release"
                  /\ UNCHANGED <<w_i, w_rows>>
           ELSE /\ w_strs' = Append(w_strs, Serialize(red))
                /\ w_rows' = Append(w_rows, BuildRow(Pt(pt.m, pt.z)))
                /\ m_log' = Touch(Log(ops \o TableOps, ops1 \o TableOps), red)
                /\ w_i' = w_i + 1
                /\ m_pc' = IF w_i + 1 < m_num THEN "point" ELSE "ladder"
                /\ UNCHANGED <<w_fail, m_err>>
  /\ UNCHANGED <<m_in, m_scalar, m_num, m_points, m_scalars, m_p, m_t, m_flags,
                 m_heap, m_ret, m_r, boothVars, invVars, affVars, recVars>>

(* lines 388-435 *)
WmulLadder ==
  /\ m_pc = "ladder"
  /\ m_uaf' = (m_uaf \/ Uses(WmulBufs))
  /\ LET out == WindowedLadder(w_strs, [i \in 1..m_num |-> w_rows[i].e], m_num)
     IN  IF m_flags.p_is_infinity
           THEN m_p' = out /\ UNCHANGED m_t
           ELSE m_t' = out /\ UNCHANGED m_p
  /\ m_log' = [Log(LadderOps(m_num), LadderOps(m_num))
                 EXCEPT !.ran = @ \cup {"general"},
                        !.idx = @ \cup LadderIdx(m_num)]
  /\ m_pc' = "release"
  /\ UNCHANGED <<m_in, m_scalar, m_num, m_points, m_scalars, m_flags, m_heap,
                 w_i, w_strs, w_rows, w_fail, m_ret, m_err, m_r,
                 boothVars, invVars, affVars, recVars>>

(* lines 437-441: err, where the function ends on every path; it returns   *)
(* nothing                                                                 *)
WmulReturn ==
  /\ m_pc = "release"
  /\ m_heap' = WmulRelease(m_heap)
  /\ m_pc' = "merge"
  /\ UNCHANGED <<m_in, m_scalar, m_num, m_points, m_scalars, m_p, m_t, m_flags,
                 m_uaf, w_i, w_strs, w_rows, w_fail, m_ret, m_err, m_r, m_log,
                 boothVars, invVars, affVars, recVars>>

(* lines 614-616 *)
MulMerge ==
  /\ m_pc = "merge"
  /\ IF ~m_flags.p_is_infinity
       THEN /\ m_p' = ecp_nistz256_point_add(m_p, m_t)
            /\ m_log' = [Log(<<"point_add">>, <<"point_add">>)
                           EXCEPT !.merges = @ + 1]
       ELSE UNCHANGED <<m_p, m_log>>
  /\ m_pc' = "finish"
  /\ UNCHANGED <<m_in, m_scalar, m_num, m_points, m_scalars, m_t, m_flags,
                 m_heap, m_uaf, w_i, w_strs, w_rows, w_fail, m_ret, m_err, m_r,
                 boothVars, invVars, affVars, recVars>>

(* contents that memory never written may have *)
Garbage == {PtZero, Pt(0, 1), Pt(1, 1)}

(* lines 619-634 *)
MulFinish ==
  /\ m_pc = "finish"
  /\ m_uaf' = (m_uaf \/ (m_flags.no_precomp_for_generator /\ Uses(FoldBufs)))
  /\ m_heap' = IF m_flags.no_precomp_for_generator THEN FoldRelease(m_heap)
               ELSE m_heap
  /\ IF IsIndet(m_p) THEN m_r' \in Garbage ELSE m_r' = m_p
  /\ m_ret' = 1
  /\ m_pc' = "done"
  /\ UNCHANGED <<m_in, m_scalar, m_num, m_points, m_scalars, m_p, m_t, m_flags,
                 w_i, w_strs, w_rows, w_fail, m_err, m_log,
                 boothVars, invVars, recVars>>
  /\ UNCHANGED affVars

(* the caller of a multiplication without auxiliary points asks for the    *)
(* affine coordinates of a result it was told is good                      *)
MulAffine ==
  /\ m_pc = "done" /\ m_ret = 1 /\ m_in.num = 0
  /\ a_point' = PointOf(m_r)
  /\ a_want' = <<TRUE, TRUE>>
  /\ a_out' = ecp_nistz256_get_affine(PointOf(m_r), TRUE, TRUE, a_out.x, a_out.y)
  /\ a_pc' = "done"
  /\ m_pc' = "affine"
  /\ UNCHANGED <<m_in, m_scalar, m_num, m_points, m_scalars, m_p, m_t, m_flags,
                 m_heap, m_uaf, w_i, w_strs, w_rows, w_fail, m_ret, m_err, m_r,
                 m_log, boothVars, invVars, recVars>>

MulNext ==
  \/ MulCall \/ MulReduce \/ MulGenerator \/ MulFold
  \/ WmulAlloc \/ WmulPoint \/ WmulLadder \/ WmulReturn
  \/ MulMerge \/ MulFinish \/ MulAffine

SpecMul == MulInit /\ [][MulNext]_vars

(* ----------------------------------------------------------------------- *)
(* What a multiplication has to return                                     *)
(* ----------------------------------------------------------------------- *)
RECURSIVE SumOfProducts(_, _, _)
SumOfProducts(scalars, points, i) ==
  IF i > Len(scalars) THEN 0
  ELSE (RefMul(scalars[i], points[i].m) + SumOfProducts(scalars, points, i + 1))
       % Order

(* the multiple of G that k*G + sum(k_i*P_i) is, by double-and-add *)
Expected ==
  ((IF m_in.scalar.null THEN 0 ELSE RefMul(m_in.scalar.bn, m_in.gen.m))
   + SumOfProducts(m_in.scalars, m_in.points, 1)) % Order

(* r is the point e*G: any r with Z = 0 is the point at infinity *)
Represents(r, e) == IF e = 0 THEN r.z = 0 ELSE r = Pt(e, 1)

Returned == m_pc \in {"done", "affine"}

(* the general path alone for the scalar k of the standard generator:      *)
(* ecp_nistz256_windowed_mul on the one pair (G, k)                        *)
GeneralPath(k) ==
  LET red == IF NeedsReduction(k) THEN BN_nnmod(k) ELSE k
  IN  WindowedLadder(<<Serialize(red)>>, <<BuildRow(Pt(StdGen.m, 1)).e>>, 1)

(* C1: a multiplication that returns success, and in which no step of     *)
(* the general path failed, returns the point k*G + sum(k_i*P_i) that      *)
(* double-and-add computes.                                                *)
MulCorrect ==
  (Returned /\ m_ret = 1 /\ w_fail = "") => Represents(m_r, Expected)

(* C2: when the general path fails (an allocation, a scalar reduction or   *)
(* a coordinate that does not fit), the multiplication returns failure.    *)
NoSilentFailure ==
  (Returned /\ w_fail # "") => m_ret = 0

(* C3: without auxiliary points and with the generator scalar absent or    *)
(* zero, a successful multiplication returns a point with Z = 0, and the   *)
(* affine conversion of it fails with POINT_AT_INFINITY.                   *)
ZeroIsInfinity ==
  (/\ Returned /\ m_ret = 1 /\ w_fail = ""
   /\ m_in.num = 0
   /\ (m_in.scalar.null \/ m_in.scalar.bn = BnZero))
  => /\ m_r.z = 0
     /\ m_pc = "affine" => (a_out.ret = 0 /\ a_out.err = "POINT_AT_INFINITY")

(* C4: for the standard generator alone the generator path returns the     *)
(* point that the general path returns for the same scalar; the partial    *)
(* results are merged by one point addition when both paths ran and by     *)
(* none otherwise.                                                         *)
PathsAgree ==
  (Returned /\ m_ret = 1 /\ w_fail = "") =>
    /\ (m_in.gen = StdGen /\ ~m_in.scalar.null /\ m_in.num = 0)
         => m_r = GeneralPath(m_in.scalar.bn)
    /\ m_log.merges = IF m_log.ran = {"generator", "general"} THEN 1 ELSE 0

(* C8: a call in which the environment made nothing fail executes the      *)
(* branch outcomes, loop iterations and primitive operations that the      *)
(* same call executes with every scalar replaced by 1.                     *)
DataIndependent ==
  (Returned /\ ~m_log.injected) => m_log.ops = m_log.ops1

(* C9: no scratch buffer is used when it is not live, none is released     *)
(* twice, and when the call has returned every buffer that was acquired    *)
(* has been released once.                                                 *)
ScratchReleasedOnce ==
  /\ ~m_uaf
  /\ \A b \in Bufs :
       /\ m_heap.frees[b] <= 1
       /\ m_heap.st[b] = "freed" <=> m_heap.frees[b] = 1
       /\ Returned => m_heap.st[b] # "live"

ScratchWitness ==
  /\ Returned
  /\ w_fail = "COORDINATES_OUT_OF_RANGE"
  /\ \A b \in Bufs : m_heap.st[b] = "freed"

(* the k-th multiple of the point P, as the group operations return it *)
Multiple(k, P) ==
  LET m == (k * P.m) % Order IN Pt(m, IF m = 0 THEN 0 ELSE 1)

(* C10: the row built for an auxiliary point P has the 16 entries 1..16,   *)
(* entry k holds k*P, every entry was written once, and every step read    *)
(* entries that were written before it.                                    *)
TableHoldsMultiples ==
  \A i \in 1..Len(w_rows) :
    /\ DOMAIN w_rows[i].e = 1..TableSize
    /\ w_rows[i].fresh
    /\ \A k \in 1..TableSize :
         /\ w_rows[i].w[k] = 1
         /\ w_rows[i].e[k] = Multiple(k, m_points[i])

TableWitness ==
  /\ Len(w_rows) >= 1
  /\ m_points[1].m = 2
  /\ w_rows[1].e[TableSize] = Pt((2 * TableSize) % Order, 1)
  /\ w_rows[1].e[11] = Pt(22 % Order, 1)

(* ----------------------------------------------------------------------- *)
(* One recoding at each of its call sites: a window of the general path    *)
(* (lines 400-405, 424-429), a window of the generator path (lines         *)
(* 533-540, 549-555) and the window that seeds the accumulator of the      *)
(* general path (lines 390-394)                                            *)
(* ----------------------------------------------------------------------- *)
RecInit ==
  /\ BoothIdle /\ InvIdle /\ AffIdle /\ MulIdle
  /\ r_pc = "call"
  /\ r_kind \in {"w5", "w7", "seed"}
  /\ r_in \in IF r_kind = "w5" THEN 0..kMask5
              ELSE IF r_kind = "w7" THEN 0..kMask7
              ELSE 0..255
  /\ r_wvalue = 0 /\ r_out = 0 /\ r_index = 0

(* wvalue = booth_recode_w5(wvalue); select_w5(&h, table[i], wvalue >> 1) *)
Recode5 ==
  /\ r_pc = "call" /\ r_kind = "w5"
  /\ r_wvalue' = r_in
  /\ r_out' = booth_recode_w5(r_in)
  /\ r_index' = Shr(booth_recode_w5(r_in), 1)
  /\ r_pc' = "done"
  /\ UNCHANGED <<r_kind, r_in, boothVars, invVars, affVars, mulVars>>

(* wvalue = booth_recode_w7(wvalue); select_w7(&t.a, row, wvalue >> 1) *)
Recode7 ==
  /\ r_pc = "call" /\ r_kind = "w7"
  /\ r_wvalue' = r_in
  /\ r_out' = booth_recode_w7(r_in)
  /\ r_index' = Shr(booth_recode_w7(r_in), 1)
  /\ r_pc' = "done"
  /\ UNCHANGED <<r_kind, r_in, boothVars, invVars, affVars, mulVars>>

(* lines 390-394: the window at index 255 of p_str[0], read from byte 31 *)
RecodeSeed ==
  /\ r_pc = "call" /\ r_kind = "seed"
  /\ LET p_str  == [j \in 0..(StrLen - 1) |-> IF j = 31 THEN r_in ELSE 0]
         wvalue == SeedWindowW5(p_str)
     IN  /\ r_wvalue' = wvalue
         /\ r_out' = booth_recode_w5(wvalue)
         /\ r_index' = Shr(booth_recode_w5(wvalue), 1)
  /\ r_pc' = "done"
  /\ UNCHANGED <<r_kind, r_in, boothVars, invVars, affVars, mulVars>>

RecNext == Recode5 \/ Recode7 \/ RecodeSeed

SpecRecode == RecInit /\ [][RecNext]_vars

(* C11: the recoded value of a (w+1)-bit window v has the top bit of v as *)
(* its low bit and a magnitude of at most 2^(w-1) above it; the index      *)
(* given to the table selector is that magnitude and is at most the table  *)
(* size (16, or 64 for a generator row); the window that seeds the         *)
(* general path has sign 0.                                                *)
RecodeInRange ==
  r_pc = "done" =>
    LET w    == IF r_kind = "w7" THEN kWindowSize7 ELSE kWindowSize5
        size == IF r_kind = "w7" THEN RowSize ELSE TableSize
    IN  /\ r_wvalue \in 0..(2^(w + 1) - 1)
        /\ r_out % 2 = r_wvalue \div 2^w
        /\ r_out \div 2 \in 0..2^(w - 1)
        /\ r_index = r_out \div 2
        /\ r_index <= size
        /\ r_kind = "seed" => r_out % 2 = 0

RecodeWitness ==
  /\ r_pc = "done" /\ r_kind = "w7"
  /\ r_wvalue = 128
  /\ r_out % 2 = 1
  /\ r_index = RowSize

(* C12: every byte of a p_str buffer that is written or read has an index  *)
(* in 0..32; a scalar that is serialised has at most 32 value bytes, the   *)
(* buffer it leaves has bytes 0..32 and byte 32 of it is 0.                *)
StrAccessInBounds ==
  /\ m_log.idx \subseteq 0..(StrLen - 1)
  /\ m_log.nbytes \subseteq 0..(StrLen - 1)
  /\ m_log.guard \subseteq {0}
  /\ \A i \in 1..Len(w_strs) :
       DOMAIN w_strs[i] = 0..(StrLen - 1) /\ w_strs[i][StrLen - 1] = 0

StrAccessWitness ==
  /\ Returned /\ w_fail = ""
  /\ m_in.scalar.bn = BnWide
  /\ m_in.num = 2
  /\ m_log.ran = {"generator", "general"}
  /\ StrLen - 1 \in m_log.idx
  /\ P256_LIMBS * BN_BYTES \in m_log.nbytes
  /\ m_log.guard = {0}

====
